---------------------------- MODULE Spec2Model ----------------------------
(***************************************************************************)
(* Model of validate/check_hard_expedition.py: the layout analysis of a    *)
(* square character grid (P=park, H=home, S=supercharger, R=road,          *)
(* B=building).  The script scans the grid for points of interest,         *)
(* classifies every park by its passable neighbours, and flood-fills from  *)
(* the first home to decide which parks are reachable.                     *)
(*                                                                         *)
(* Coordinates are the script's 0-based (x, y) pairs; layout[y][x] of the  *)
(* script is layout[y + 1][x + 1] here.                                    *)
(***************************************************************************)
EXTENDS Integers, Sequences, FiniteSets, TLC

VARIABLES
    layout,          \* config['layout']: the rows of the grid
    grid_size,       \* len(layout)
    parks,           \* list of (x, y), in scan order
    homes,           \* list of (x, y), in scan order
    superchargers,   \* list of (x, y), in scan order
    park_status,     \* one record per park already classified
    start,           \* <<>> or <<(start_x, start_y)>>
    visited,         \* the flood fill's set
    queue,           \* the flood fill's list
    counts,          \* <<>> or <<reachable_parks, len(parks)>> once printed
    park_report,     \* the per-park lines of the failing branch
    verdict,         \* "none" until the script ends
    pc,              \* position in the script
    expansions,      \* history: coordinates in the order they were added to visited
    run,             \* history: 1 in the first execution, 2 in the second
    prev             \* history: the results of the first execution

vars == <<layout, grid_size, parks, homes, superchargers, park_status, start,
          visited, queue, counts, park_report, verdict, pc, expansions, run, prev>>

----------------------------------------------------------------------------
(* Bounds of the model. *)

\* Largest number of cells of a well-formed grid (its side n has n * n <= MaxCells).
MaxCells == 9

\* Largest number of cells of a well-formed grid that are not Road.
MaxNonRoad == 4

\* Side of the square grids that are damaged into malformed ones.
RawN == 2

----------------------------------------------------------------------------
(* The grid. *)

Labels == {"P", "H", "S", "R", "B"}

NonRoad == {"P", "H", "S", "B"}

\* ['R', 'P', 'H', 'S'], the labels a traversal may move through.
Passable == {"R", "P", "H", "S"}

\* [(-1,0), (1,0), (0,-1), (0,1)], in the order the script walks them.
Dirs == << <<-1, 0>>, <<1, 0>>, <<0, -1>>, <<0, 1>> >>

\* 0 <= nx < grid_size and 0 <= ny < grid_size
InBounds(n, x, y) == 0 <= x /\ x < n /\ 0 <= y /\ y < n

\* layout[y][x] raises IndexError unless the row and the column exist.
HasCell(l, x, y) == (y + 1) \in DOMAIN l /\ (x + 1) \in DOMAIN l[y + 1]

\* layout[y][x]
Cell(l, x, y) == l[y + 1][x + 1]

\* The cells of one row holding label c, left to right.
RowCells(l, y, c) ==
    LET all == [i \in 1..Len(l[y + 1]) |-> <<i - 1, y>>]
        Is(p) == Cell(l, p[1], p[2]) = c
    IN  SelectSeq(all, Is)

\* The cells holding label c in the order of the nested enumerate loops:
\* rows top to bottom, each row left to right.
RECURSIVE LocateFrom(_, _, _)
LocateFrom(l, y, c) ==
    IF y >= Len(l) THEN <<>>
    ELSE RowCells(l, y, c) \o LocateFrom(l, y + 1, c)

Locate(l, c) == LocateFrom(l, 0, c)

----------------------------------------------------------------------------
(* Park classification. *)

\* The neighbors list of one park: out of bounds = building.
Neighbors(l, n, x, y) ==
    [d \in 1..4 |->
        LET nx == x + Dirs[d][1]
            ny == y + Dirs[d][2]
        IN  IF InBounds(n, nx, ny) THEN Cell(l, nx, ny) ELSE "B"]

\* Whether building the neighbors list indexes outside a row (IndexError).
NeighborsRaise(l, n, x, y) ==
    \E d \in 1..4 :
        LET nx == x + Dirs[d][1]
            ny == y + Dirs[d][2]
        IN  InBounds(n, nx, ny) /\ ~HasCell(l, nx, ny)

\* sum(1 for n in neighbors if n in ['R', 'P', 'H', 'S'])
PassableNeighbors(nb) == Cardinality({d \in 1..4 : nb[d] \in Passable})

ClassifyOffByOne(k) ==
    IF k = 0 THEN "isolated"
    ELSE IF k <= 2 THEN "dead end"
    ELSE "accessible"

\* The if / elif / else on passable_neighbors.
Classify(k) ==
    IF k = 0 THEN "isolated"
    ELSE IF k < 2 THEN "dead end"
    ELSE "accessible"

----------------------------------------------------------------------------
(* Flood fill. *)

\* The neighbours of (x, y) the inner for loop appends to the queue, in order.
ExpandWith(l, n, vis, x, y, dirs, ok) ==
    LET nbr(d) == <<x + dirs[d][1], y + dirs[d][2]>>
        all == [d \in 1..Len(dirs) |-> nbr(d)]
        Keep(c) == /\ InBounds(n, c[1], c[2])
                   /\ c \notin vis
                   /\ Cell(l, c[1], c[2]) \in ok
    IN  SelectSeq(all, Keep)

ExpandThreeDirs(l, n, vis, x, y) ==
    ExpandWith(l, n, vis, x, y, SubSeq(Dirs, 1, 3), Passable)

ExpandAnyLabel(l, n, vis, x, y) ==
    ExpandWith(l, n, vis, x, y, Dirs, Labels)

ExpandDiagonal(l, n, vis, x, y) ==
    ExpandWith(l, n, vis, x, y,
               Dirs \o << <<-1, -1>>, <<1, 1>>, <<-1, 1>>, <<1, -1>> >>, Passable)

Expand(l, n, vis, x, y) == ExpandWith(l, n, vis, x, y, Dirs, Passable)

\* Whether the inner for loop indexes outside a row (IndexError).
ExpandRaises(l, n, vis, x, y) ==
    \E d \in 1..4 :
        LET nx == x + Dirs[d][1]
            ny == y + Dirs[d][2]
        IN  InBounds(n, nx, ny) /\ <<nx, ny>> \notin vis /\ ~HasCell(l, nx, ny)

NeverVisited(c, vis) == FALSE

\* if (x, y) in visited: continue
AlreadyVisited(c, vis) == c \in vis

LastHome(hs) == hs[Len(hs)]

\* start_x, start_y = homes[0]
FirstHome(hs) == hs[1]

\* sum(1 for px, py in parks if (px, py) in visited)
ReachableParks(ps, vis) == Cardinality({i \in 1..Len(ps) : ps[i] \in vis})

----------------------------------------------------------------------------
(* The grids the script is run on. *)

Positions(n) == (0..(n - 1)) \X (0..(n - 1))

\* The n x n grid that holds f's labels on f's domain and Road elsewhere.
MkGrid(n, f) ==
    [y \in 1..n |-> [x \in 1..n |->
        IF <<x - 1, y - 1>> \in DOMAIN f THEN f[<<x - 1, y - 1>>] ELSE "R"]]

\* The sets of at most k cells of an n x n grid.
Places(n, k) == {T \in SUBSET Positions(n) : Cardinality(T) <= k}

\* Malformed inputs: a square grid with one defect.
BadLabel(g, x, y) == [g EXCEPT ![y][x] = "X"]

ShortRow(g, y) == [g EXCEPT ![y] = SubSeq(g[y], 1, Len(g[y]) - 1)]

LongRow(g, y, c) == [g EXCEPT ![y] = Append(g[y], c)]

MissingRow(g) == SubSeq(g, 1, Len(g) - 1)

Defects(g) ==
    {BadLabel(g, x, y) : x \in 1..Len(g), y \in 1..Len(g)}
    \cup {ShortRow(g, y) : y \in 1..Len(g)}
    \cup {LongRow(g, y, c) : y \in 1..Len(g), c \in Labels}
    \cup {MissingRow(g)}

----------------------------------------------------------------------------
(* The script. *)

NoResults == [park_status |-> <<>>, visited |-> {}, counts |-> <<>>,
              park_report |-> <<>>, verdict |-> "none"]

\* The state once the layout is loaded: lines 6-10 and the empty lists.
Loaded(l) ==
    /\ layout = l
    /\ grid_size = Len(l)
    /\ parks = <<>>
    /\ homes = <<>>
    /\ superchargers = <<>>
    /\ park_status = <<>>
    /\ start = <<>>
    /\ visited = {}
    /\ queue = <<>>
    /\ counts = <<>>
    /\ park_report = <<>>
    /\ verdict = "none"
    /\ pc = "scan"
    /\ expansions = <<>>
    /\ run = 1
    /\ prev = NoResults

\* The sides of the well-formed grids.
Sides == {n \in 1..MaxCells : n * n <= MaxCells}

\* The well-formed inputs: square, non-empty, every label known, at most
\* MaxNonRoad cells that are not Road.
Init ==
    \E n \in Sides : \E T \in Places(n, MaxNonRoad) : \E f \in [T -> NonRoad] :
        Loaded(MkGrid(n, f))

\* The malformed inputs: the empty grid, and every square grid of side RawN
\* with one defect.
InitMalformed ==
    \/ Loaded(<<>>)
    \/ \E T \in SUBSET Positions(RawN) : \E f \in [T -> NonRoad] :
            \E l \in Defects(MkGrid(RawN, f)) : Loaded(l)

\* The scan for parks, homes and superchargers.
Scan ==
    /\ pc = "scan"
    /\ parks' = Locate(layout, "P")
    /\ homes' = Locate(layout, "H")
    /\ superchargers' = Locate(layout, "S")
    /\ pc' = "classify"
    /\ UNCHANGED <<layout, grid_size, park_status, start, visited, queue, counts,
                   park_report, verdict, expansions, run, prev>>

\* One iteration of the loop over parks: its neighbours, their passable count
\* and its status.  An index outside a row ends the script with IndexError.
ClassifyPark ==
    /\ pc = "classify"
    /\ Len(park_status) < Len(parks)
    /\ LET p == parks[Len(park_status) + 1]
       IN  IF NeighborsRaise(layout, grid_size, p[1], p[2])
           THEN /\ verdict' = "IndexError"
                /\ pc' = "done"
                /\ UNCHANGED park_status
           ELSE LET nb == Neighbors(layout, grid_size, p[1], p[2])
                    k == PassableNeighbors(nb)
                IN  /\ park_status' = Append(park_status,
                            [pos |-> p, neighbors |-> nb, passable |-> k,
                             status |-> Classify(k)])
                    /\ UNCHANGED <<verdict, pc>>
    /\ UNCHANGED <<layout, grid_size, parks, homes, superchargers, start, visited,
                   queue, counts, park_report, expansions, run, prev>>

\* if homes: the flood fill starts from the first home.
StartFloodFill ==
    /\ pc = "classify"
    /\ Len(park_status) = Len(parks)
    /\ homes # <<>>
    /\ start' = <<FirstHome(homes)>>
    /\ visited' = {}
    /\ queue' = <<FirstHome(homes)>>
    /\ pc' = "flood"
    /\ UNCHANGED <<layout, grid_size, parks, homes, superchargers, park_status,
                   counts, park_report, verdict, expansions, run, prev>>

NoStartPointAsFail ==
    /\ pc = "classify"
    /\ Len(park_status) = Len(parks)
    /\ homes = <<>>
    /\ counts' = <<0, Len(parks)>>
    /\ verdict' = "fail"
    /\ pc' = "done"
    /\ UNCHANGED <<layout, grid_size, parks, homes, superchargers, park_status,
                   start, visited, queue, park_report, expansions, run, prev>>

\* else: no home locations found, no starting point.
NoStartPoint ==
    /\ pc = "classify"
    /\ Len(park_status) = Len(parks)
    /\ homes = <<>>
    /\ verdict' = "no_start"
    /\ pc' = "done"
    /\ UNCHANGED <<layout, grid_size, parks, homes, superchargers, park_status,
                   start, visited, queue, counts, park_report, expansions, run, prev>>

\* One iteration of the while loop that pops an already visited coordinate.
FloodSkip ==
    /\ pc = "flood"
    /\ queue # <<>>
    /\ AlreadyVisited(Head(queue), visited)
    /\ queue' = Tail(queue)
    /\ UNCHANGED <<layout, grid_size, parks, homes, superchargers, park_status,
                   start, visited, counts, park_report, verdict, pc, expansions,
                   run, prev>>

\* One iteration of the while loop that visits the popped coordinate and
\* appends its neighbours.
FloodVisitWith(newLayout) ==
    /\ pc = "flood"
    /\ queue # <<>>
    /\ ~AlreadyVisited(Head(queue), visited)
    /\ LET c == Head(queue)
           vis == visited \cup {c}
       IN  /\ visited' = vis
           /\ expansions' = Append(expansions, c)
           /\ layout' = newLayout
           /\ IF ExpandRaises(layout, grid_size, vis, c[1], c[2])
              THEN /\ verdict' = "IndexError"
                   /\ pc' = "done"
                   /\ queue' = Tail(queue)
              ELSE /\ queue' = Tail(queue) \o Expand(layout, grid_size, vis, c[1], c[2])
                   /\ UNCHANGED <<verdict, pc>>
    /\ UNCHANGED <<grid_size, parks, homes, superchargers, park_status, start,
                   counts, park_report, run, prev>>

FloodVisitMarking ==
    FloodVisitWith([layout EXCEPT ![Head(queue)[2] + 1][Head(queue)[1] + 1] = "B"])

FloodVisit == FloodVisitWith(layout)

ReportAnyReachable ==
    /\ pc = "flood"
    /\ queue = <<>>
    /\ LET r == ReachableParks(parks, visited)
       IN  /\ counts' = <<r, Len(parks)>>
           /\ verdict' = IF r > 0 THEN "pass" ELSE "fail"
           /\ park_report' = <<>>
    /\ pc' = "done"
    /\ UNCHANGED <<layout, grid_size, parks, homes, superchargers, park_status,
                   start, visited, queue, expansions, run, prev>>

\* The queue is empty: the count of reachable parks, the verdict and, when
\* some park is not reachable, one line per park.
Report ==
    /\ pc = "flood"
    /\ queue = <<>>
    /\ LET r == ReachableParks(parks, visited)
       IN  /\ counts' = <<r, Len(parks)>>
           /\ verdict' = IF r = Len(parks) THEN "pass" ELSE "fail"
           /\ park_report' =
                IF r = Len(parks) THEN <<>>
                ELSE [i \in 1..Len(parks) |->
                        [pos |-> parks[i], reachable |-> parks[i] \in visited]]
    /\ pc' = "done"
    /\ UNCHANGED <<layout, grid_size, parks, homes, superchargers, park_status,
                   start, visited, queue, expansions, run, prev>>

\* The analysis is run a second time on the grid it was given.
Rerun ==
    /\ pc = "done"
    /\ run = 1
    /\ run' = 2
    /\ prev' = [park_status |-> park_status, visited |-> visited, counts |-> counts,
                park_report |-> park_report, verdict |-> verdict]
    /\ parks' = <<>>
    /\ homes' = <<>>
    /\ superchargers' = <<>>
    /\ park_status' = <<>>
    /\ start' = <<>>
    /\ visited' = {}
    /\ queue' = <<>>
    /\ counts' = <<>>
    /\ park_report' = <<>>
    /\ verdict' = "none"
    /\ expansions' = <<>>
    /\ pc' = "scan"
    /\ UNCHANGED <<layout, grid_size>>

Next ==
    \/ Scan
    \/ ClassifyPark
    \/ StartFloodFill
    \/ NoStartPoint
    \/ FloodSkip
    \/ FloodVisit
    \/ Report

NextTwice == Next \/ Rerun

\* One run of the script on a well-formed grid.
Spec == Init /\ [][Next]_vars

\* The script is sequential: a step that can be taken is taken.
FairSpec == Spec /\ WF_vars(Next)

\* The analysis run twice on the same grid.
SpecTwice == Init /\ [][NextTwice]_vars

\* One run of the script on a malformed grid.
SpecMalformed == InitMalformed /\ [][Next]_vars

----------------------------------------------------------------------------
(* What the properties speak of, read off the grid itself. *)

\* The coordinates of a grid of side n.
Coords == Positions(grid_size)

CellsLabelled(c) == {p \in Coords : Cell(layout, p[1], p[2]) = c}

ParkCells == CellsLabelled("P")

HomeCells == CellsLabelled("H")

PassableCells == {p \in Coords : Cell(layout, p[1], p[2]) \in Passable}

\* Two coordinates one orthogonal move apart.
Adjacent(a, b) ==
    \/ a[1] = b[1] /\ (a[2] = b[2] + 1 \/ b[2] = a[2] + 1)
    \/ a[2] = b[2] /\ (a[1] = b[1] + 1 \/ b[1] = a[1] + 1)

\* The cells joined to a cell of S by a path of orthogonal moves through
\* in-bounds passable cells.
RECURSIVE PathClosure(_)
PathClosure(S) ==
    LET T == S \cup {p \in PassableCells : \E q \in S : Adjacent(p, q)}
    IN  IF T = S THEN S ELSE PathClosure(T)

PathReachable(s) == PathClosure({s} \cap PassableCells)

\* The number of orthogonal neighbours of p that are in bounds and passable.
PassableCount(p) == Cardinality({q \in PassableCells : Adjacent(p, q)})

\* The smallest row, then the smallest column.
RowMajorFirst(S) ==
    CHOOSE h \in S : \A g \in S : h[2] < g[2] \/ (h[2] = g[2] /\ h[1] <= g[1])

\* The while loop has ended.
FloodFinished ==
    \/ pc = "flood" /\ queue = <<>>
    \/ pc = "done" /\ verdict \in {"pass", "fail"}

ClassificationDone == pc \in {"flood", "done"}

NoDuplicates(q) == \A i, j \in 1..Len(q) : q[i] = q[j] => i = j

----------------------------------------------------------------------------
(* The properties. *)

\* C1: when the flood fill has finished, the visited set is exactly the set
\* of cells joined to the start cell by a path of orthogonal moves through
\* in-bounds cells labelled Road, Park, Home or Supercharger.
C1_VisitedIsReachabilityClosure ==
    FloodFinished => visited = PathReachable(start[1])

\* A finished flood fill that reached several cells and left a passable cell out.
C1_Witness ==
    /\ FloodFinished
    /\ Cardinality(visited) >= 4
    /\ PassableCells \ visited # {}

\* C2: in every state, also during the flood fill, every visited coordinate
\* is inside the grid and its cell is not a Building.
C2_VisitedInBoundsNoBuilding ==
    \A c \in visited :
        InBounds(grid_size, c[1], c[2]) /\ Cell(layout, c[1], c[2]) # "B"

\* A flood fill under way next to a Building and at the edge of the grid.
C2_Witness ==
    /\ pc = "flood"
    /\ queue # <<>>
    /\ \E c \in visited : \E b \in CellsLabelled("B") : Adjacent(c, b)

\* C3: every Park is classified, isolated iff it has exactly 0 in-bounds
\* passable orthogonal neighbours, dead end iff exactly 1, accessible iff 2
\* or more.
C3_ClassificationThresholds ==
    /\ \A i \in 1..Len(park_status) :
          LET r == park_status[i]
              k == PassableCount(r.pos)
          IN  /\ r.pos \in ParkCells
              /\ r.passable = k
              /\ r.status = "isolated" <=> k = 0
              /\ r.status = "dead end" <=> k = 1
              /\ r.status = "accessible" <=> k >= 2
    /\ ClassificationDone =>
          /\ {park_status[i].pos : i \in 1..Len(park_status)} = ParkCells
          /\ Len(park_status) = Cardinality(ParkCells)

\* All parks classified, one of them a dead end with a neighbour out of
\* bounds, another accessible with exactly 2 passable neighbours.
C3_Witness ==
    /\ ClassificationDone
    /\ \E i, j \in 1..Len(park_status) :
          /\ park_status[i].status = "dead end"
          /\ \E d \in 1..4 :
                ~InBounds(grid_size, park_status[i].pos[1] + Dirs[d][1],
                                     park_status[i].pos[2] + Dirs[d][2])
          /\ park_status[j].status = "accessible" /\ park_status[j].passable = 2

\* C4: on a grid without a Home the script ends in the no-start-point
\* outcome: no flood fill, no count of reachable parks, neither pass nor fail.
C4_NoHomeNoStartPoint ==
    HomeCells = {} =>
        /\ pc # "flood"
        /\ start = <<>> /\ visited = {} /\ queue = <<>> /\ expansions = <<>>
        /\ counts = <<>> /\ park_report = <<>>
        /\ verdict \in {"none", "no_start"}
        /\ pc = "done" => verdict = "no_start"

\* The script ended on a grid with parks and no home.
C4_Witness ==
    /\ pc = "done"
    /\ HomeCells = {}
    /\ Len(parks) >= 2

\* A grid that is empty, not square, or holds an unknown label.
Malformed(l) ==
    \/ l = <<>>
    \/ \E y \in 1..Len(l) : Len(l[y]) # Len(l)
    \/ \E y \in 1..Len(l) : \E x \in 1..Len(l[y]) : l[y][x] \notin Labels

\* C5: a malformed grid yields InvalidGridError before any classification or
\* flood-fill step: no park status, visited set, count or verdict is computed.
C5_MalformedIsInvalidGridError ==
    Malformed(layout) =>
        /\ park_status = <<>> /\ visited = {} /\ queue = <<>>
        /\ counts = <<>> /\ park_report = <<>>
        /\ verdict \in {"none", "InvalidGridError"}
        /\ pc = "done" => verdict = "InvalidGridError"

\* C6: with a Home in the grid, the reported count is the number of Park
\* cells in the visited set, the total is the number of Park cells, each
\* Park is reported reachable iff it is visited, and the verdict is pass iff
\* every Park is visited.
C6_ReportMatchesVisited ==
    (pc = "done" /\ HomeCells # {}) =>
        /\ verdict \in {"pass", "fail"}
        /\ counts = <<Cardinality(ParkCells \cap visited), Cardinality(ParkCells)>>
        /\ verdict = "pass" <=> ParkCells \subseteq visited
        /\ verdict = "fail" =>
              /\ Len(park_report) = Cardinality(ParkCells)
              /\ {park_report[i].pos : i \in 1..Len(park_report)} = ParkCells
              /\ \A i \in 1..Len(park_report) :
                    park_report[i].reachable <=> park_report[i].pos \in visited

\* A failing report: the flood fill reached several cells and not the park.
C6_Witness ==
    /\ pc = "done"
    /\ verdict = "fail"
    /\ Len(park_report) >= 1
    /\ Cardinality(visited) >= 3

\* C7: the flood fill starts at the first Home in row-major order (smallest
\* y, then smallest x), at no other Home, and the start is in the final
\* visited set.
C7_StartIsFirstHomeRowMajor ==
    (HomeCells # {} /\ ClassificationDone) =>
        /\ start = <<RowMajorFirst(HomeCells)>>
        /\ expansions # <<>> => expansions[1] = RowMajorFirst(HomeCells)
        /\ (expansions = <<>> /\ queue # <<>>) => queue = <<RowMajorFirst(HomeCells)>>
        /\ FloodFinished => RowMajorFirst(HomeCells) \in visited

\* A finished flood fill on a grid with several homes, one of them not
\* reached from the start.
C7_Witness ==
    /\ FloodFinished
    /\ Cardinality(HomeCells) >= 2
    /\ HomeCells \ visited # {}

\* C8: a Park classified isolated is never in the visited set, is reported
\* unreachable, and makes the verdict fail.
C8_IsolatedParkUnreachable ==
    \A i \in 1..Len(park_status) :
        park_status[i].status = "isolated" =>
            /\ park_status[i].pos \notin visited
            /\ (pc = "done" /\ HomeCells # {}) =>
                  /\ verdict = "fail"
                  /\ \E j \in 1..Len(park_report) :
                        /\ park_report[j].pos = park_status[i].pos
                        /\ ~park_report[j].reachable

\* The script ended on a grid with a home and an isolated park.
C8_Witness ==
    /\ pc = "done"
    /\ HomeCells # {}
    /\ \E i \in 1..Len(park_status) : park_status[i].status = "isolated"

\* C9: the flood fill terminates, and no coordinate is added to the visited
\* set (and expanded) more than once, although a coordinate may sit in the
\* queue several times before its first visit.
C9_FloodFillTerminates ==
    /\ <>[](pc = "done" /\ queue = <<>>)
    /\ [](NoDuplicates(expansions) /\ Cardinality(visited) = Len(expansions))

\* A coordinate not yet visited that is in the queue twice.
C9_Witness ==
    /\ pc = "flood"
    /\ \E i, j \in 1..Len(queue) :
          i # j /\ queue[i] = queue[j] /\ queue[i] \notin visited

=============================================================================
